---- MODULE Spec2Model ----
(***************************************************************************)
(* The collaborative drawing client of src/src/App.js (the same handlers   *)
(* are repeated in src/unnamed/part_002) as a state machine: one React     *)
(* component instance per client, its WebSocket, and the relay the         *)
(* clients talk to.                                                        *)
(*                                                                         *)
(* Every browser callback (pointer handler, button handler, onmessage,     *)
(* onopen, onclose) is one atomic action: a client is single-threaded and  *)
(* the component is assumed to have re-rendered between two callbacks, so  *)
(* a handler reads the state its predecessor wrote.                        *)
(*                                                                         *)
(* A JavaScript object is a record holding exactly the keys whose value is *)
(* defined; a key whose value is undefined is absent from the record.      *)
(*                                                                         *)
(* The older variant of the component in src/unnamed/part_000, which keeps *)
(* the drawing as a list of lines, has its own handlers and state further  *)
(* down (SpecLines, SpecPaint).                                            *)
(***************************************************************************)
EXTENDS Integers, Sequences, FiniteSets, TLC

VARIABLES
    readyState,     \* socketRef.current.readyState, per client
    currentColor,   \* useState("#000000"), per client
    drawing,        \* useState(false), per client
    currentStroke,  \* useState([]), per client
    strokes,        \* strokesRef.current, per client
    canvas,         \* the canvas bitmap and its 2d context, per client
    outbox,         \* frames handed to socket.send and not yet taken by the relay
    inbox,          \* frames the relay has sent to a client, not yet handled
    relayHistory,   \* the relay's accumulated history (replayed as init)
    lastEvent,      \* the callback that ran in the last step, with its arguments
    before,         \* that client's state when the callback started
    dragPts,        \* the points of the client's own pointer events of this drag
    dragInbound,    \* an inbound message was handled since this drag's pointer-down
    nops,           \* local events so far
    ninject,        \* frames injected by the inbound harness so far
    prevFrame,      \* inbound harness: the frame injected before the last one
    script,         \* interleaving harness: each sender's message sequence;
                    \* SpecReceive: the history at the start and the frames sent;
                    \* SpecPaint: the CSS offsets of the pointer events of a drag
    cursor,         \* interleaving harness: how far each receiver is in each script
    order,          \* interleaving harness: the sender of each message a receiver handled
    lines,          \* part_000: useState([]), the lines of the drawing, per client
    isDrawing,      \* part_000: useState(false), per client
    undoStack,      \* part_000: useState([]), per client
    ownLine         \* part_000: where in lines the line of this drag's
                    \* startDrawing is; 0 if there is none

vars == <<readyState, currentColor, drawing, currentStroke, strokes, canvas, outbox,
          inbox, relayHistory, lastEvent, before, dragPts, dragInbound, nops,
          ninject, prevFrame, script, cursor, order, lines, isDrawing,
          undoStack, ownLine>>

clientVars == <<currentColor, drawing, currentStroke, strokes, canvas>>
ghostVars == <<lastEvent, before, dragPts, dragInbound>>
netVars == <<readyState, outbox, inbox, relayHistory>>
harnessVars == <<ninject, prevFrame, script, cursor, order>>
linesVars == <<lines, isDrawing, undoStack, ownLine>>

----------------------------------------------------------------------------
(* Bounds and input sets *)

MaxOps == 3        \* local events (pointer, button) in one run of Spec
MaxMoves == 2      \* pointer moves of the drag of SpecDrag
MaxInject == 2     \* frames the inbound harness delivers in one run
MaxScript == 3     \* messages of all senders in the interleaving harness
MaxReceive == 3    \* frames waiting for the client of SpecReceive

Clients == {"a", "b"}
Colors == {"#000000", "#ff0000"}
DefaultColor == "#000000"
\* results of getPos for the pointer events of a run
Positions == {[x |-> 10, y |-> 10], [x |-> 20, y |-> 20]}

Point(pos, color) == [x |-> pos.x, y |-> pos.y, color |-> color]

P1 == Point([x |-> 10, y |-> 10], "#ff0000")
P2 == Point([x |-> 20, y |-> 20], "#ff0000")
P3 == Point([x |-> 20, y |-> 10], "#000000")
StrokeA == <<P1, P2>>
StrokeB == <<P3>>

NoEvent == [kind |-> "none"]
NoSnapshot == [kind |-> "none"]
NoFrame == [kind |-> "none"]

----------------------------------------------------------------------------
(* JavaScript values *)

Has(obj, key) == key \in DOMAIN obj

\* Array.prototype.pop: removes the last element; on an empty array it
\* returns undefined and leaves the array empty.
ArrayPop(arr) == IF Len(arr) = 0 THEN arr ELSE SubSeq(arr, 1, Len(arr) - 1)

\* Array.prototype.push
ArrayPush(arr, elem) == Append(arr, elem)

\* { x: msg.x, y: msg.y, color: msg.color }: a key of msg that is missing
\* reads as undefined, and so is missing from the point.
MsgPoint(msg) == [key \in (DOMAIN msg \cap {"x", "y", "color"}) |-> msg[key]]

\* JSON.parse(JSON.stringify(v)) for the values sent: a finite number, a
\* string and an array come back as they were, an object comes back with the
\* keys whose value is defined.
JSONPoint(p) == [key \in DOMAIN p |-> p[key]]
JSONStroke(stroke) == [i \in 1..Len(stroke) |-> JSONPoint(stroke[i])]
JSONRoundTrip(msg) ==
    [key \in DOMAIN msg |->
        IF key = "stroke" THEN JSONStroke(msg[key])
        ELSE IF key = "strokes"
             THEN [i \in 1..Len(msg[key]) |-> JSONStroke(msg[key][i])]
        ELSE msg[key]]

\* A text frame that is not JSON: JSON.parse throws on it.
BadFrame == [text |-> "not json"]
IsJSON(frame) == ~Has(frame, "text")

----------------------------------------------------------------------------
(* The canvas: its size, what has been painted on it since it was last    *)
(* cleared, bottom to top, and the 2d context's current path and stroke    *)
(* style.  A painted polyline is the points of a path that was stroked,    *)
(* as they were passed to moveTo and lineTo, with the stroke style used;   *)
(* the context's transform, a scale, takes such a point to its place in    *)
(* the buffer, and the CSS size of the element takes the buffer to the     *)
(* screen.                                                                 *)

ASPECT_RATIO == [num |-> 4, den |-> 3]

\* container.clientWidth and window.devicePixelRatio at a resize
ContainerWidths == {400, 800}
DevicePixelRatios == {1, 2}

\* a number the canvas API accepts: a missing coordinate is undefined, and a
\* call with a coordinate that is not finite is ignored
Finite(p) == Has(p, "x") /\ Has(p, "y")
XY(p) == [x |-> p.x, y |-> p.y]

\* assigning canvas.width or canvas.height: the bitmap is cleared and the
\* context is reset, its transform to the identity; an element with no CSS
\* size is shown at the size of its buffer
ResetCanvas(width, height) ==
    [width |-> width, height |-> height, painted |-> <<>>, path |-> <<>>,
     strokeStyle |-> "#000000", scale |-> 1,
     cssWidth |-> width, cssHeight |-> height]

\* canvas.style.width and canvas.style.height
SetStyleSize(cv, width, height) ==
    [cv EXCEPT !.cssWidth = width, !.cssHeight = height]

\* ctx.setTransform(1, 0, 0, 1, 0, 0)
SetTransformIdentity(cv) == [cv EXCEPT !.scale = 1]

\* ctx.scale(k, k)
Scale(cv, k) == [cv EXCEPT !.scale = @ * k]

\* the canvas as resizeCanvas leaves it before it repaints
Resized(newWidth, newHeight, dpr) ==
    Scale(SetTransformIdentity(SetStyleSize(ResetCanvas(newWidth * dpr,
                                                        newHeight * dpr),
                                            newWidth, newHeight)),
          dpr)

ClearRect(cv) == [cv EXCEPT !.painted = <<>>]
BeginPath(cv) == [cv EXCEPT !.path = <<>>]
\* moveTo right after beginPath: the path is the one new subpath
MoveTo(cv, p) == IF Finite(p) THEN [cv EXCEPT !.path = <<XY(p)>>] ELSE cv
\* lineTo on an empty path starts the subpath at the point
LineTo(cv, p) == IF Finite(p) THEN [cv EXCEPT !.path = Append(@, XY(p))] ELSE cv
\* assigning a value that is not a colour leaves the style as it is
SetStrokeStyle(cv, p) ==
    IF Has(p, "color") THEN [cv EXCEPT !.strokeStyle = p.color] ELSE cv

\* stroke(): a path of fewer than two points paints nothing
Stroke(cv) ==
    IF Len(cv.path) < 2 THEN cv
    ELSE [cv EXCEPT
             !.painted = Append(@, [pts |-> cv.path, color |-> cv.strokeStyle])]

\* the loop of drawLine over the points after the first
RECURSIVE LineToAll(_, _, _)
LineToAll(cv, stroke, i) ==
    IF i > Len(stroke) THEN cv
    ELSE LineToAll(LineTo(cv, stroke[i]), stroke, i + 1)

drawLine(cv, stroke) ==
    IF Len(stroke) < 2 THEN cv
    ELSE Stroke(LineToAll(MoveTo(SetStrokeStyle(BeginPath(cv), stroke[1]),
                                 stroke[1]),
                          stroke, 2))

\* the loop of redrawAll over the strokes from the i-th on
RECURSIVE DrawAll(_, _, _)
DrawAll(cv, hist, i) ==
    IF i > Len(hist) THEN cv
    ELSE DrawAll(drawLine(cv, hist[i]), hist, i + 1)

redrawAll(cv, hist) == DrawAll(ClearRect(cv), hist, 1)

----------------------------------------------------------------------------
(* Ghost state: which callback ran last, and on what *)

Snapshot(c) ==
    [strokes |-> strokes[c], currentStroke |-> currentStroke[c],
     drawing |-> drawing[c], dragPts |-> dragPts[c],
     dragInbound |-> dragInbound[c]]

\* a local callback of client c; sent: the messages it passed to sendMessage
Local(c, kind, sent) ==
    /\ lastEvent' = [kind |-> kind, client |-> c, sent |-> sent, threw |-> FALSE]
    /\ before' = Snapshot(c)

----------------------------------------------------------------------------
(* App.js: the client.  A handler states the client's variables, the      *)
(* outbox and the ghost state; the step that runs it states the rest.     *)

\* a sendMessage without the readyState test: the frame is queued on a
\* socket that is not open and goes out later
sendMessageQueues(c, msg) ==
    outbox' = [outbox EXCEPT ![c] = Append(@, JSONRoundTrip(msg))]

\* sendMessage: hands msg to the socket if it is open, drops it otherwise
sendMessage(c, msg) ==
    outbox' = IF readyState[c] = "OPEN"
              THEN [outbox EXCEPT ![c] = Append(@, JSONRoundTrip(msg))]
              ELSE outbox

handlePointerDown(c, pos) ==
    LET msg == [type |-> "start", x |-> pos.x, y |-> pos.y,
                color |-> currentColor[c]]
    IN  /\ drawing' = [drawing EXCEPT ![c] = TRUE]
        /\ currentStroke' =
               [currentStroke EXCEPT ![c] = <<Point(pos, currentColor[c])>>]
        /\ sendMessage(c, msg)
        /\ canvas' = [canvas EXCEPT
                          ![c] = SetStrokeStyle(MoveTo(BeginPath(@), pos),
                                                [color |-> currentColor[c]])]
        /\ dragPts' = [dragPts EXCEPT ![c] = <<Point(pos, currentColor[c])>>]
        /\ dragInbound' = [dragInbound EXCEPT ![c] = FALSE]
        /\ Local(c, "pointerdown", <<msg>>)
        /\ UNCHANGED <<currentColor, strokes>>

\* a pointer move that sets the in-flight stroke to the new point alone
\* (setCurrentStroke([point])) instead of appending to it
handlePointerMoveResets(c, pos) ==
    LET msg == [type |-> "draw", x |-> pos.x, y |-> pos.y,
                color |-> currentColor[c]]
    IN  /\ IF ~drawing[c]
           THEN /\ Local(c, "pointermove", <<>>)
                /\ UNCHANGED <<currentStroke, canvas, outbox, dragPts>>
           ELSE /\ currentStroke' =
                       [currentStroke EXCEPT
                           ![c] = <<Point(pos, currentColor[c])>>]
                /\ canvas' = [canvas EXCEPT ![c] = Stroke(LineTo(@, pos))]
                /\ sendMessage(c, msg)
                /\ dragPts' =
                       [dragPts EXCEPT
                           ![c] = Append(@, Point(pos, currentColor[c]))]
                /\ Local(c, "pointermove", <<msg>>)
        /\ UNCHANGED <<currentColor, drawing, strokes, dragInbound>>

\* a pointer move without the test of drawing
handlePointerMoveUnguarded(c, pos) ==
    LET msg == [type |-> "draw", x |-> pos.x, y |-> pos.y,
                color |-> currentColor[c]]
    IN  /\ currentStroke' =
               [currentStroke EXCEPT ![c] = Append(@, Point(pos, currentColor[c]))]
        /\ canvas' = [canvas EXCEPT ![c] = Stroke(LineTo(@, pos))]
        /\ sendMessage(c, msg)
        /\ dragPts' =
               [dragPts EXCEPT ![c] = Append(@, Point(pos, currentColor[c]))]
        /\ Local(c, "pointermove", <<msg>>)
        /\ UNCHANGED <<currentColor, drawing, strokes, dragInbound>>

handlePointerMove(c, pos) ==
    LET msg == [type |-> "draw", x |-> pos.x, y |-> pos.y,
                color |-> currentColor[c]]
    IN  /\ IF ~drawing[c]
           THEN /\ Local(c, "pointermove", <<>>)
                /\ UNCHANGED <<currentStroke, canvas, outbox, dragPts>>
           ELSE /\ currentStroke' =
                       [currentStroke EXCEPT
                           ![c] = Append(@, Point(pos, currentColor[c]))]
                /\ canvas' = [canvas EXCEPT ![c] = Stroke(LineTo(@, pos))]
                /\ sendMessage(c, msg)
                /\ dragPts' =
                       [dragPts EXCEPT
                           ![c] = Append(@, Point(pos, currentColor[c]))]
                /\ Local(c, "pointermove", <<msg>>)
        /\ UNCHANGED <<currentColor, drawing, strokes, dragInbound>>

\* an endDrawing without the test of drawing
endDrawingUnguarded(c) ==
    LET msg == [type |-> "endStroke", stroke |-> currentStroke[c]]
    IN  /\ drawing' = [drawing EXCEPT ![c] = FALSE]
        /\ strokes' = [strokes EXCEPT ![c] = ArrayPush(@, currentStroke[c])]
        /\ sendMessage(c, msg)
        /\ currentStroke' = [currentStroke EXCEPT ![c] = <<>>]
        /\ Local(c, "end", <<msg>>)
        /\ UNCHANGED <<currentColor, canvas, dragPts, dragInbound>>

\* an endDrawing that commits and sends only a stroke of two points or more
endDrawingDropsShort(c) ==
    LET msg == [type |-> "endStroke", stroke |-> currentStroke[c]]
    IN  /\ IF ~drawing[c]
           THEN /\ Local(c, "end", <<>>)
                /\ UNCHANGED <<drawing, strokes, currentStroke, outbox>>
           ELSE /\ drawing' = [drawing EXCEPT ![c] = FALSE]
                /\ currentStroke' = [currentStroke EXCEPT ![c] = <<>>]
                /\ IF Len(currentStroke[c]) < 2
                   THEN /\ Local(c, "end", <<>>)
                        /\ UNCHANGED <<strokes, outbox>>
                   ELSE /\ strokes' =
                               [strokes EXCEPT
                                   ![c] = ArrayPush(@, currentStroke[c])]
                        /\ sendMessage(c, msg)
                        /\ Local(c, "end", <<msg>>)
        /\ UNCHANGED <<currentColor, canvas, dragPts, dragInbound>>

\* onMouseUp, onMouseLeave and onTouchEnd all run endDrawing
endDrawing(c) ==
    LET msg == [type |-> "endStroke", stroke |-> currentStroke[c]]
    IN  /\ IF ~drawing[c]
           THEN /\ Local(c, "end", <<>>)
                /\ UNCHANGED <<drawing, strokes, currentStroke, outbox>>
           ELSE /\ drawing' = [drawing EXCEPT ![c] = FALSE]
                /\ strokes' =
                       [strokes EXCEPT ![c] = ArrayPush(@, currentStroke[c])]
                /\ sendMessage(c, msg)
                /\ currentStroke' = [currentStroke EXCEPT ![c] = <<>>]
                /\ Local(c, "end", <<msg>>)
        /\ UNCHANGED <<currentColor, canvas, dragPts, dragInbound>>

\* an undo case that removes the first stroke (shift) instead of the last
CaseUndoShift(hist, cur, msg) ==
    [strokes |-> IF Len(hist) = 0 THEN hist ELSE Tail(hist), currentStroke |-> cur]

\* an undo that shortens the array by its length (strokesRef.current.length
\* -= 1), which throws a RangeError on an empty array
handleUndoThrows(c) ==
    LET msg == [type |-> "undo"]
    IN  /\ IF strokes[c] = <<>>
           THEN /\ lastEvent' = [kind |-> "undo", client |-> c, sent |-> <<>>,
                                 threw |-> TRUE]
                /\ before' = Snapshot(c)
                /\ UNCHANGED <<strokes, canvas, outbox>>
           ELSE /\ strokes' = [strokes EXCEPT ![c] = ArrayPop(@)]
                /\ canvas' = [canvas EXCEPT
                                  ![c] = redrawAll(@, ArrayPop(strokes[c]))]
                /\ sendMessage(c, msg)
                /\ Local(c, "undo", <<msg>>)
        /\ UNCHANGED <<currentColor, drawing, currentStroke, dragPts,
                       dragInbound>>

handleUndo(c) ==
    LET msg == [type |-> "undo"]
    IN  /\ strokes' = [strokes EXCEPT ![c] = ArrayPop(@)]
        /\ canvas' = [canvas EXCEPT ![c] = redrawAll(@, ArrayPop(strokes[c]))]
        /\ sendMessage(c, msg)
        /\ Local(c, "undo", <<msg>>)
        /\ UNCHANGED <<currentColor, drawing, currentStroke, dragPts,
                       dragInbound>>

handleClear(c) ==
    LET msg == [type |-> "clear"]
    IN  /\ strokes' = [strokes EXCEPT ![c] = <<>>]
        /\ canvas' = [canvas EXCEPT ![c] = ClearRect(@)]
        /\ sendMessage(c, msg)
        /\ Local(c, "clear", <<msg>>)
        /\ UNCHANGED <<currentColor, drawing, currentStroke, dragPts,
                       dragInbound>>

\* the colour input's onChange
setCurrentColor(c, color) ==
    /\ currentColor' = [currentColor EXCEPT ![c] = color]
    /\ Local(c, "color", <<>>)
    /\ UNCHANGED <<drawing, currentStroke, strokes, canvas, outbox, dragPts,
                   dragInbound>>

\* a resize that also scales the stored coordinates to the new buffer
resizeCanvasRescales(c, containerWidth, dpr) ==
    LET newWidth == containerWidth
        newHeight == (containerWidth * ASPECT_RATIO.den) \div ASPECT_RATIO.num
        Scaled(p) == [p EXCEPT !.x = (@ * newWidth * dpr) \div canvas[c].width,
                               !.y = (@ * newHeight * dpr) \div canvas[c].height]
        rescaled == [i \in 1..Len(strokes[c]) |->
                        [j \in 1..Len(strokes[c][i]) |-> Scaled(strokes[c][i][j])]]
    IN  /\ strokes' = [strokes EXCEPT ![c] = rescaled]
        /\ canvas' = [canvas EXCEPT
                          ![c] = redrawAll(Resized(newWidth, newHeight, dpr),
                                           rescaled)]
        /\ Local(c, "resize", <<>>)
        /\ UNCHANGED <<currentColor, drawing, currentStroke, outbox,
                       dragPts, dragInbound>>

\* the window's resize event, and the mount: the buffer gets the
\* container's width times the device pixel ratio, at 4:3, and the history
\* is painted again
resizeCanvas(c, containerWidth, dpr) ==
    LET newWidth == containerWidth
        newHeight == (containerWidth * ASPECT_RATIO.den) \div ASPECT_RATIO.num
    IN  /\ canvas' = [canvas EXCEPT
                          ![c] = redrawAll(Resized(newWidth, newHeight, dpr),
                                           strokes[c])]
        /\ Local(c, "resize", <<>>)
        /\ UNCHANGED <<currentColor, drawing, currentStroke, strokes, outbox,
                       dragPts, dragInbound>>

\* onmessage, one case of the switch each: the history and the in-flight
\* stroke after the case, from those before it
\* an init case that merges the snapshot into the local history
CaseInitMerge(hist, cur, msg) ==
    [strokes |-> hist \o (IF Has(msg, "strokes") THEN msg.strokes ELSE <<>>),
     currentStroke |-> cur]

CaseInit(hist, cur, msg) ==
    [strokes |-> IF Has(msg, "strokes") THEN msg.strokes ELSE <<>>,
     currentStroke |-> cur]

CaseStart(hist, cur, msg) ==
    [strokes |-> hist, currentStroke |-> <<MsgPoint(msg)>>]

\* a draw case that also commits the point as a stroke of its own
CaseDrawCommits(hist, cur, msg) ==
    [strokes |-> ArrayPush(hist, <<MsgPoint(msg)>>),
     currentStroke |-> Append(cur, MsgPoint(msg))]

CaseDraw(hist, cur, msg) ==
    [strokes |-> hist, currentStroke |-> Append(cur, MsgPoint(msg))]

\* an endStroke case that commits the points collected from start and draw
\* instead of the stroke the message carries
CaseEndStrokeFromPoints(hist, cur, msg) ==
    [strokes |-> IF Has(msg, "stroke") THEN ArrayPush(hist, cur) ELSE hist,
     currentStroke |-> <<>>]

CaseEndStroke(hist, cur, msg) ==
    [strokes |-> IF Has(msg, "stroke") THEN ArrayPush(hist, msg.stroke) ELSE hist,
     currentStroke |-> <<>>]

CaseUndo(hist, cur, msg) ==
    [strokes |-> ArrayPop(hist), currentStroke |-> cur]

\* a clear case that removes only the last stroke
CaseClearPopsOne(hist, cur, msg) ==
    [strokes |-> ArrayPop(hist), currentStroke |-> cur]

CaseClear(hist, cur, msg) ==
    [strokes |-> <<>>, currentStroke |-> cur]

CaseDefault(hist, cur, msg) ==
    [strokes |-> hist, currentStroke |-> cur]

Switch(hist, cur, msg) ==
    IF ~Has(msg, "type") THEN CaseDefault(hist, cur, msg)
    ELSE CASE msg.type = "init" -> CaseInit(hist, cur, msg)
           [] msg.type = "start" -> CaseStart(hist, cur, msg)
           [] msg.type = "draw" -> CaseDraw(hist, cur, msg)
           [] msg.type = "endStroke" -> CaseEndStroke(hist, cur, msg)
           [] msg.type = "undo" -> CaseUndo(hist, cur, msg)
           [] msg.type = "clear" -> CaseClear(hist, cur, msg)
           [] OTHER -> CaseDefault(hist, cur, msg)

\* what the case of the switch paints: after is the history and the
\* in-flight stroke the case leaves
SwitchPaint(cv, after, msg) ==
    IF ~Has(msg, "type") THEN cv
    ELSE CASE msg.type = "init" -> redrawAll(cv, after.strokes)
           [] msg.type = "draw" -> drawLine(cv, after.currentStroke)
           [] msg.type = "endStroke" ->
                 IF Has(msg, "stroke") THEN redrawAll(cv, after.strokes) ELSE cv
           [] msg.type = "undo" -> redrawAll(cv, after.strokes)
           [] msg.type = "clear" -> ClearRect(cv)
           [] OTHER -> cv

\* an onmessage that sends the message it handled back out
onmessageEchoes(c, frame) ==
    LET after == Switch(strokes[c], currentStroke[c], frame)
    IN  /\ lastEvent' = [kind |-> "message", client |-> c, frame |-> frame,
                         threw |-> ~IsJSON(frame)]
        /\ before' = Snapshot(c)
        /\ IF IsJSON(frame)
           THEN /\ strokes' = [strokes EXCEPT ![c] = after.strokes]
                /\ currentStroke' =
                       [currentStroke EXCEPT ![c] = after.currentStroke]
                /\ canvas' = [canvas EXCEPT
                                  ![c] = SwitchPaint(@, after, frame)]
                /\ dragInbound' = [dragInbound EXCEPT ![c] = TRUE]
                /\ sendMessage(c, frame)
           ELSE UNCHANGED <<strokes, currentStroke, canvas, dragInbound, outbox>>
        /\ UNCHANGED <<currentColor, drawing, dragPts>>

\* socketRef.current.onmessage on one frame: JSON.parse throws on a frame
\* that is not JSON, before anything is touched
onmessage(c, frame) ==
    LET after == Switch(strokes[c], currentStroke[c], frame)
    IN  /\ lastEvent' = [kind |-> "message", client |-> c, frame |-> frame,
                         threw |-> ~IsJSON(frame)]
        /\ before' = Snapshot(c)
        /\ IF IsJSON(frame)
           THEN /\ strokes' = [strokes EXCEPT ![c] = after.strokes]
                /\ currentStroke' =
                       [currentStroke EXCEPT ![c] = after.currentStroke]
                /\ canvas' = [canvas EXCEPT
                                  ![c] = SwitchPaint(@, after, frame)]
                /\ dragInbound' = [dragInbound EXCEPT ![c] = TRUE]
           ELSE UNCHANGED <<strokes, currentStroke, canvas, dragInbound>>
        /\ UNCHANGED <<currentColor, drawing, dragPts, outbox>>

----------------------------------------------------------------------------
(* The connection and the relay *)

InitFrame(hist) == [type |-> "init", strokes |-> hist]

\* the relay's own copy of the session history, message by message
RelayApply(hist, msg) ==
    IF ~Has(msg, "type") THEN hist
    ELSE CASE msg.type = "endStroke" ->
                 IF Has(msg, "stroke") THEN Append(hist, msg.stroke) ELSE hist
           [] msg.type = "undo" -> ArrayPop(hist)
           [] msg.type = "clear" -> <<>>
           [] OTHER -> hist

\* the connection opens (onopen only logs) and the relay replays the session
onopen(c) ==
    /\ readyState[c] = "CONNECTING"
    /\ readyState' = [readyState EXCEPT ![c] = "OPEN"]
    /\ inbox' = [inbox EXCEPT ![c] = <<InitFrame(relayHistory)>>]
    /\ lastEvent' = NoEvent
    /\ before' = NoSnapshot
    /\ UNCHANGED <<clientVars, outbox, relayHistory, dragPts, dragInbound>>

\* an onclose that opens a replacement connection
oncloseReconnects(c) ==
    /\ readyState[c] # "CLOSED"
    /\ readyState' = [readyState EXCEPT ![c] = "CONNECTING"]
    /\ inbox' = [inbox EXCEPT ![c] = <<>>]
    /\ lastEvent' = NoEvent
    /\ before' = NoSnapshot
    /\ UNCHANGED <<clientVars, outbox, relayHistory, dragPts, dragInbound>>

\* an onclose that abandons the drag in progress
oncloseAbandonsDrag(c) ==
    /\ readyState[c] # "CLOSED"
    /\ readyState' = [readyState EXCEPT ![c] = "CLOSED"]
    /\ inbox' = [inbox EXCEPT ![c] = <<>>]
    /\ drawing' = [drawing EXCEPT ![c] = FALSE]
    /\ currentStroke' = [currentStroke EXCEPT ![c] = <<>>]
    /\ lastEvent' = NoEvent
    /\ before' = NoSnapshot
    /\ UNCHANGED <<currentColor, strokes, canvas, outbox, relayHistory, dragPts,
                   dragInbound>>

\* the connection fails or closes (onclose only logs); frames on their way
\* to the client are lost
onclose(c) ==
    /\ readyState[c] # "CLOSED"
    /\ readyState' = [readyState EXCEPT ![c] = "CLOSED"]
    /\ inbox' = [inbox EXCEPT ![c] = <<>>]
    /\ lastEvent' = NoEvent
    /\ before' = NoSnapshot
    /\ UNCHANGED <<clientVars, outbox, relayHistory, dragPts, dragInbound>>

\* the relay takes the next frame of client c and rebroadcasts it to every
\* other connected client
RelayForward(c) ==
    /\ outbox[c] # <<>>
    /\ outbox' = [outbox EXCEPT ![c] = Tail(@)]
    /\ inbox' = [d \in Clients |->
                    IF d # c /\ readyState[d] = "OPEN"
                    THEN Append(inbox[d], Head(outbox[c]))
                    ELSE inbox[d]]
    /\ relayHistory' = RelayApply(relayHistory, Head(outbox[c]))
    /\ lastEvent' = NoEvent
    /\ before' = NoSnapshot
    /\ UNCHANGED <<readyState, clientVars, dragPts, dragInbound>>

\* the browser hands the next inbound frame to onmessage
Receive(c) ==
    /\ inbox[c] # <<>>
    /\ onmessage(c, Head(inbox[c]))
    /\ inbox' = [inbox EXCEPT ![c] = Tail(@)]
    /\ UNCHANGED <<readyState, relayHistory>>

----------------------------------------------------------------------------
(* Spec: the clients and the relay *)

\* the session already holds strokes when the modelled clients join
InitialSession == <<StrokeA, StrokeB>>

\* the second user has picked another colour before drawing
InitialColor == [c \in Clients |-> IF c = "a" THEN DefaultColor ELSE "#ff0000"]

\* the canvas after the mount's resizeCanvas, the history still empty
MountWidth == 400
MountedCanvas ==
    redrawAll(ResetCanvas(MountWidth,
                          (MountWidth * ASPECT_RATIO.den) \div ASPECT_RATIO.num),
              <<>>)

\* the canvas of a client that has painted the history hist on joining
CanvasOf(hist) == redrawAll(MountedCanvas, hist)

\* no client is dragging
InitIdle ==
    /\ drawing = [c \in Clients |-> FALSE]
    /\ currentStroke = [c \in Clients |-> <<>>]
    /\ dragPts = [c \in Clients |-> <<>>]
    /\ dragInbound = [c \in Clients |-> FALSE]

\* nothing is in flight and nothing has happened yet
InitQuiet ==
    /\ outbox = [c \in Clients |-> <<>>]
    /\ inbox = [c \in Clients |-> <<>>]
    /\ lastEvent = NoEvent
    /\ before = NoSnapshot
    /\ nops = 0

\* the component of part_000, not drawn on
InitLinesIdle ==
    /\ lines = [c \in Clients |-> <<>>]
    /\ isDrawing = [c \in Clients |-> FALSE]
    /\ undoStack = [c \in Clients |-> <<>>]
    /\ ownLine = [c \in Clients |-> 0]

InitHarness ==
    /\ ninject = 0
    /\ prevFrame = NoFrame
    /\ script = <<>>
    /\ cursor = <<>>
    /\ order = <<>>

Init ==
    /\ InitLinesIdle
    /\ InitIdle
    /\ InitQuiet
    /\ InitHarness
    /\ currentColor = InitialColor
    /\ strokes = [c \in Clients |-> <<>>]
    /\ canvas = [c \in Clients |-> MountedCanvas]
    /\ readyState = [c \in Clients |-> "CONNECTING"]
    /\ relayHistory = InitialSession

\* in Spec and SpecCanvas the pointer goes down at one place and moves to
\* another; the drag of SpecDrag takes every place of Positions
PressPositions == {[x |-> 10, y |-> 10]}
MovePositions == {[x |-> 20, y |-> 20]}

\* a pointer or button event of a user: one more local event of the run
UserStep ==
    /\ nops < MaxOps
    /\ nops' = nops + 1
    /\ UNCHANGED <<readyState, inbox, relayHistory, harnessVars, linesVars>>

NetStep == UNCHANGED <<nops, harnessVars, linesVars>>

Next ==
    \/ \E c \in Clients, pos \in PressPositions :
          UserStep /\ handlePointerDown(c, pos)
    \/ \E c \in Clients, pos \in MovePositions :
          UserStep /\ handlePointerMove(c, pos)
    \/ \E c \in Clients : UserStep /\ endDrawing(c)
    \/ \E c \in Clients : UserStep /\ handleUndo(c)
    \/ \E c \in Clients : UserStep /\ handleClear(c)
    \/ \E c \in Clients : NetStep /\ onopen(c)
    \/ \E c \in Clients : NetStep /\ onclose(c)
    \/ \E c \in Clients : NetStep /\ RelayForward(c)
    \/ \E c \in Clients : NetStep /\ Receive(c)

Spec == Init /\ [][Next]_vars

----------------------------------------------------------------------------
(* SpecDrag: client a performs one drag on an open connection, the relay  *)
(* forwards its frames and client b handles them.                         *)

DragSessions == {<<>>, InitialSession}

InitDrag ==
    /\ InitLinesIdle
    /\ InitIdle
    /\ InitQuiet
    /\ InitHarness
    /\ currentColor = InitialColor
    /\ \E hist \in DragSessions :
          /\ strokes = [c \in Clients |-> hist]
          /\ canvas = [c \in Clients |-> CanvasOf(hist)]
          /\ relayHistory = hist
    /\ readyState = [c \in Clients |-> "OPEN"]

DragNotStarted == ~drawing["a"] /\ dragPts["a"] = <<>>
DragDone == ~drawing["a"] /\ dragPts["a"] # <<>>

DragStep ==
    UNCHANGED <<readyState, inbox, relayHistory, nops, harnessVars, linesVars>>

NextDrag ==
    \/ \E color \in Colors :
          DragNotStarted /\ DragStep /\ setCurrentColor("a", color)
    \/ \E pos \in Positions :
          DragNotStarted /\ DragStep /\ handlePointerDown("a", pos)
    \/ \E pos \in Positions :
          /\ drawing["a"]
          /\ Len(dragPts["a"]) <= MaxMoves
          /\ DragStep
          /\ handlePointerMove("a", pos)
    \/ drawing["a"] /\ DragStep /\ endDrawing("a")
    \/ NetStep /\ RelayForward("a")
    \/ NetStep /\ Receive("b")

SpecDrag == InitDrag /\ [][NextDrag]_vars

----------------------------------------------------------------------------
(* SpecInbound: client a, idle or in the middle of a drag, is handed any  *)
(* frames, well-formed or not, duplicates included.                       *)

InboundHistories == {<<>>, <<StrokeA>>, <<StrokeA, StrokeB>>}

PDrag == Point([x |-> 10, y |-> 10], DefaultColor)

WellFormedFrames ==
    { InitFrame(<<>>), InitFrame(<<StrokeB>>),
      [type |-> "start", x |-> 20, y |-> 20, color |-> "#ff0000"],
      [type |-> "draw", x |-> 20, y |-> 10, color |-> "#ff0000"],
      [type |-> "endStroke", stroke |-> StrokeA],
      [type |-> "endStroke", stroke |-> <<>>],
      [type |-> "undo"],
      [type |-> "clear"] }

\* a known type with a required field missing, or a type the switch does
\* not know, or no type at all
MalformedFrames ==
    { [type |-> "init"],
      [type |-> "endStroke"],
      [type |-> "start", y |-> 20, color |-> "#ff0000"],
      [type |-> "start", x |-> 20, color |-> "#ff0000"],
      [type |-> "draw", y |-> 10, color |-> "#ff0000"],
      [type |-> "draw", x |-> 20, color |-> "#ff0000"],
      [type |-> "userCount", count |-> 2],
      [payload |-> "no type"] }

InboundFrames == WellFormedFrames \cup MalformedFrames \cup {BadFrame}

\* client a is connected and holds some history; its user is idle or has
\* pressed the pointer at (10, 10)
InitInbound ==
    /\ InitLinesIdle
    /\ InitQuiet
    /\ InitHarness
    /\ currentColor = InitialColor
    /\ readyState = [c \in Clients |-> IF c = "a" THEN "OPEN" ELSE "CONNECTING"]
    /\ relayHistory = InitialSession
    /\ \E hist \in InboundHistories, mid \in BOOLEAN :
          /\ strokes = [c \in Clients |-> IF c = "a" THEN hist ELSE <<>>]
          /\ canvas =
                 [c \in Clients |->
                     IF c # "a" THEN MountedCanvas
                     ELSE IF ~mid THEN CanvasOf(hist)
                     ELSE SetStrokeStyle(MoveTo(BeginPath(CanvasOf(hist)), PDrag),
                                         PDrag)]
          /\ drawing = [c \in Clients |-> c = "a" /\ mid]
          /\ currentStroke =
                 [c \in Clients |-> IF c = "a" /\ mid THEN <<PDrag>> ELSE <<>>]
          /\ dragPts =
                 [c \in Clients |-> IF c = "a" /\ mid THEN <<PDrag>> ELSE <<>>]
    /\ dragInbound = [c \in Clients |-> FALSE]

Inject(c, frame) ==
    /\ ninject < MaxInject
    /\ ninject' = ninject + 1
    /\ prevFrame' = IF lastEvent.kind = "message" THEN lastEvent.frame ELSE NoFrame
    /\ onmessage(c, frame)
    /\ UNCHANGED <<readyState, inbox, relayHistory, nops, script, cursor, order,
                   linesVars>>

NextInbound == \E frame \in InboundFrames : Inject("a", frame)

SpecInbound == InitInbound /\ [][NextInbound]_vars

----------------------------------------------------------------------------
(* SpecCanvas: client a, connected and holding some history, draws,      *)
(* undoes, clears and resizes its window while frames of a peer arrive.   *)

CanvasFrames ==
    { InitFrame(<<StrokeB>>),
      [type |-> "start", x |-> 20, y |-> 20, color |-> "#ff0000"],
      [type |-> "draw", x |-> 20, y |-> 10, color |-> "#ff0000"],
      [type |-> "endStroke", stroke |-> StrokeA],
      [type |-> "endStroke", stroke |-> StrokeB],
      [type |-> "undo"],
      [type |-> "clear"] }

InitCanvas ==
    /\ InitLinesIdle
    /\ InitIdle
    /\ InitQuiet
    /\ InitHarness
    /\ currentColor = InitialColor
    /\ readyState = [c \in Clients |-> IF c = "a" THEN "OPEN" ELSE "CONNECTING"]
    /\ relayHistory = InitialSession
    /\ \E hist \in InboundHistories :
          /\ strokes = [c \in Clients |-> IF c = "a" THEN hist ELSE <<>>]
          /\ canvas = [c \in Clients |->
                           IF c = "a" THEN CanvasOf(hist) ELSE MountedCanvas]

NextCanvas ==
    \/ \E pos \in PressPositions : UserStep /\ handlePointerDown("a", pos)
    \/ \E pos \in MovePositions : UserStep /\ handlePointerMove("a", pos)
    \/ UserStep /\ endDrawing("a")
    \/ UserStep /\ handleUndo("a")
    \/ UserStep /\ handleClear("a")
    \/ \E width \in ContainerWidths, dpr \in DevicePixelRatios :
          UserStep /\ resizeCanvas("a", width, dpr)
    \/ \E frame \in CanvasFrames : Inject("a", frame)

SpecCanvas == InitCanvas /\ [][NextCanvas]_vars

----------------------------------------------------------------------------
(* SpecPos: getPos on one mouse or touch event, for a canvas of any       *)
(* buffer size shown at any CSS size and place.  Numbers are fractions in *)
(* lowest terms; the rounding of the machine's arithmetic is left out.    *)

RECURSIVE GCD(_, _)
GCD(m, n) == IF n = 0 THEN m ELSE GCD(n, m % n)

\* m / n for m >= 0 and n > 0
Fraction(m, n) == [num |-> m \div GCD(m, n), den |-> n \div GCD(m, n)]
\* k * r for an integer k >= 0
Times(k, r) == Fraction(k * r.num, r.den)

\* a getPos that scales both axes by the width ratio
getPosOneScale(cv, rect, e) ==
    LET touch == Has(e, "touches")
        clientX == IF touch THEN e.touches[1].clientX ELSE e.clientX
        clientY == IF touch THEN e.touches[1].clientY ELSE e.clientY
    IN  [x |-> Times(clientX - rect.left, Fraction(cv.width, rect.width)),
         y |-> Times(clientY - rect.top, Fraction(cv.width, rect.width))]

getPos(cv, rect, e) ==
    LET touch == Has(e, "touches")
        clientX == IF touch THEN e.touches[1].clientX ELSE e.clientX
        clientY == IF touch THEN e.touches[1].clientY ELSE e.clientY
    IN  [x |-> Times(clientX - rect.left, Fraction(cv.width, rect.width)),
         y |-> Times(clientY - rect.top, Fraction(cv.height, rect.height))]

\* buffer sizes, and the places and CSS sizes of the canvas in the viewport
BufferSizes == { [width |-> 400, height |-> 300], [width |-> 800, height |-> 600],
                [width |-> 1600, height |-> 1200] }
Rects ==
    { [left |-> l, top |-> t, width |-> sz[1], height |-> sz[2]] :
          l \in {0, 8}, t \in {0, 16},
          sz \in {<<400, 300>>, <<300, 225>>, <<300, 300>>} }
\* offsets of the pointer from the rectangle's origin
Offsets == {[px |-> 0, py |-> 0], [px |-> 7, py |-> 100], [px |-> 150, py |-> 33]}

MouseEvent(x, y) == [clientX |-> x, clientY |-> y]
\* a touch event with a second finger somewhere else
TouchEvent(x, y) ==
    [touches |-> <<[clientX |-> x, clientY |-> y],
                   [clientX |-> x + 40, clientY |-> y + 40]>>]

InitPos ==
    /\ InitLinesIdle
    /\ InitIdle
    /\ InitHarness
    /\ outbox = [c \in Clients |-> <<>>]
    /\ inbox = [c \in Clients |-> <<>>]
    /\ before = NoSnapshot
    /\ nops = 0
    /\ currentColor = InitialColor
    /\ readyState = [c \in Clients |-> "CONNECTING"]
    /\ relayHistory = InitialSession
    /\ strokes = [c \in Clients |-> <<>>]
    /\ \E size \in BufferSizes :
          canvas = [c \in Clients |-> ResetCanvas(size.width, size.height)]
    /\ \E rect \in Rects, off \in Offsets, touch \in BOOLEAN :
          lastEvent =
              [kind |-> "pointer", rect |-> rect, offset |-> off,
               event |-> IF touch
                         THEN TouchEvent(rect.left + off.px, rect.top + off.py)
                         ELSE MouseEvent(rect.left + off.px, rect.top + off.py)]

\* the pointer handler asks getPos for the event's place
CallGetPos(c) ==
    /\ lastEvent.kind = "pointer"
    /\ lastEvent' = [kind |-> "getPos", rect |-> lastEvent.rect,
                     offset |-> lastEvent.offset, event |-> lastEvent.event,
                     pos |-> getPos(canvas[c], lastEvent.rect, lastEvent.event)]
    /\ before' = NoSnapshot
    /\ UNCHANGED <<clientVars, netVars, dragPts, dragInbound, nops, harnessVars,
                   linesVars>>

NextPos == CallGetPos("a")

SpecPos == InitPos /\ [][NextPos]_vars

----------------------------------------------------------------------------
(* SpecReceive: the relay has sent client a some frames, which the       *)
(* browser hands to onmessage one by one.                                 *)

ReceiveFrames == WellFormedFrames \cup {[type |-> "userCount", count |-> 2]}

FrameSequences == UNION {[1..n -> ReceiveFrames] : n \in 0..MaxReceive}

InitReceive ==
    /\ InitLinesIdle
    /\ InitIdle
    /\ lastEvent = NoEvent
    /\ before = NoSnapshot
    /\ nops = 0
    /\ ninject = 0
    /\ prevFrame = NoFrame
    /\ cursor = <<>>
    /\ order = <<>>
    /\ currentColor = InitialColor
    /\ readyState = [c \in Clients |-> IF c = "a" THEN "OPEN" ELSE "CONNECTING"]
    /\ relayHistory = InitialSession
    /\ outbox = [c \in Clients |-> <<>>]
    /\ \E hist \in InboundHistories, frames \in FrameSequences :
          /\ strokes = [c \in Clients |-> IF c = "a" THEN hist ELSE <<>>]
          /\ canvas = [c \in Clients |->
                           IF c = "a" THEN CanvasOf(hist) ELSE MountedCanvas]
          /\ inbox = [c \in Clients |-> IF c = "a" THEN frames ELSE <<>>]
          /\ script = [start |-> hist, frames |-> frames]

NextReceive == NetStep /\ Receive("a")

SpecReceive == InitReceive /\ [][NextReceive]_vars

----------------------------------------------------------------------------
(* SpecGranularity: a peer's stroke reaches client a point by point      *)
(* (start, some or all of its draws, endStroke) and client b as the       *)
(* endStroke alone.                                                       *)

GranularityStrokes == {<<P3>>, StrokeA, <<P3, P1, P2>>}

StartMsg(p) == [type |-> "start", x |-> p.x, y |-> p.y, color |-> p.color]
DrawMsg(p) == [type |-> "draw", x |-> p.x, y |-> p.y, color |-> p.color]
EndMsg(stroke) == [type |-> "endStroke", stroke |-> stroke]

\* the frames of the stroke, with the first ndraws of its draw messages
Incremental(stroke, ndraws) ==
    LET msgs == <<StartMsg(stroke[1])>>
                    \o [i \in 1..ndraws |-> DrawMsg(stroke[i + 1])]
                    \o <<EndMsg(stroke)>>
    IN  [i \in 1..Len(msgs) |-> JSONRoundTrip(msgs[i])]

InitGranularity ==
    /\ InitLinesIdle
    /\ InitIdle
    /\ lastEvent = NoEvent
    /\ before = NoSnapshot
    /\ nops = 0
    /\ ninject = 0
    /\ prevFrame = NoFrame
    /\ cursor = <<>>
    /\ order = <<>>
    /\ currentColor = InitialColor
    /\ readyState = [c \in Clients |-> "OPEN"]
    /\ outbox = [c \in Clients |-> <<>>]
    /\ \E hist \in InboundHistories, stroke \in GranularityStrokes :
          \E ndraws \in 0..(Len(stroke) - 1) :
              /\ strokes = [c \in Clients |-> hist]
              /\ canvas = [c \in Clients |-> CanvasOf(hist)]
              /\ relayHistory = hist
              /\ inbox = [c \in Clients |->
                              IF c = "a"
                              THEN Incremental(stroke, ndraws)
                              ELSE <<JSONRoundTrip(EndMsg(stroke))>>]
              /\ script = [start |-> hist, stroke |-> stroke]

NextGranularity ==
    \/ NetStep /\ Receive("a")
    \/ NetStep /\ Receive("b")

SpecGranularity == InitGranularity /\ [][NextGranularity]_vars

----------------------------------------------------------------------------
(* SpecInterleave: two senders emit messages; clients a and b, starting   *)
(* from the same history, each handle every sender's messages in that     *)
(* sender's order, interleaved in any way.                                *)

Senders == {"s1", "s2"}
SenderPoint(s) == IF s = "s1" THEN P1 ELSE P3

SenderMsgs(s) ==
    { [type |-> "start", x |-> SenderPoint(s).x, y |-> SenderPoint(s).y,
       color |-> SenderPoint(s).color],
      [type |-> "draw", x |-> SenderPoint(s).x, y |-> SenderPoint(s).y,
       color |-> SenderPoint(s).color],
      [type |-> "endStroke", stroke |-> <<SenderPoint(s)>>],
      [type |-> "undo"],
      [type |-> "clear"] }

\* the messages whose case of the switch writes strokesRef.current
HistoryTypes == {"endStroke", "undo", "clear"}

InterleaveHistories == {<<>>, <<StrokeA>>}

InitInterleave ==
    /\ InitLinesIdle
    /\ InitIdle
    /\ InitQuiet
    /\ ninject = 0
    /\ prevFrame = NoFrame
    /\ currentColor = InitialColor
    /\ readyState = [c \in Clients |-> "OPEN"]
    /\ relayHistory = InitialSession
    /\ \E hist \in InterleaveHistories :
          /\ strokes = [c \in Clients |-> hist]
          /\ canvas = [c \in Clients |-> CanvasOf(hist)]
    /\ script = [s \in Senders |-> <<>>]
    /\ cursor = [c \in Clients |-> [s \in Senders |-> 0]]
    /\ order = [c \in Clients |-> <<>>]

Emitted == Len(script["s1"]) + Len(script["s2"])

Emit(s, msg) ==
    /\ Emitted < MaxScript
    /\ script' = [script EXCEPT ![s] = Append(@, JSONRoundTrip(msg))]
    /\ lastEvent' = NoEvent
    /\ before' = NoSnapshot
    /\ UNCHANGED <<netVars, clientVars, dragPts, dragInbound, nops, ninject,
                   prevFrame, cursor, order, linesVars>>

Handle(c, s) ==
    LET frame == script[s][cursor[c][s] + 1]
    IN  /\ cursor[c][s] < Len(script[s])
        /\ onmessage(c, frame)
        /\ cursor' = [cursor EXCEPT ![c][s] = @ + 1]
        /\ order' = [order EXCEPT
                         ![c] = Append(@, [sender |-> s,
                                           hist |-> frame.type \in HistoryTypes])]
        /\ UNCHANGED <<readyState, inbox, relayHistory, nops, ninject,
                       prevFrame, script, linesVars>>

AllDelivered ==
    \A c \in Clients, s \in Senders : cursor[c][s] = Len(script[s])

IsHistoryEntry(e) == e.hist
\* the order in which client c handled the messages that write the history
HistoryOrder(c) == SelectSeq(order[c], IsHistoryEntry)

NextInterleave ==
    \/ \E s \in Senders : \E msg \in SenderMsgs(s) : Emit(s, msg)
    \/ \E c \in Clients, s \in Senders : Handle(c, s)

SpecInterleave == InitInterleave /\ [][NextInterleave]_vars

----------------------------------------------------------------------------
(* part_000: the variant of the client that keeps the drawing as a list   *)
(* of lines, each a colour and its points, and tells its peers of a line  *)
(* with new_line and update_line messages.  SpecLines: client a,          *)
(* connected, draws, undoes and clears while frames of a peer arrive.      *)

Line(color, points) == [color |-> color, points |-> points]

\* the inner loop of redrawAll: moveTo the first point, lineTo the others
RECURSIVE TracePoints(_, _, _)
TracePoints(cv, points, i) ==
    IF i > Len(points) THEN cv
    ELSE TracePoints(IF i = 1 THEN MoveTo(cv, points[i]) ELSE LineTo(cv, points[i]),
                     points, i + 1)

\* the outer loop of redrawAll, over the lines from the i-th on
RECURSIVE PaintLines(_, _, _)
PaintLines(cv, ls, i) ==
    IF i > Len(ls) THEN cv
    ELSE PaintLines(Stroke(TracePoints(BeginPath(SetStrokeStyle(cv, ls[i])),
                                       ls[i].points, 1)),
                    ls, i + 1)

\* redrawAll of part_000; the effect on [lines, redrawAll] runs it after
\* every change of lines
redrawAllLines(cv, ls) == PaintLines(ClearRect(cv), ls, 1)

\* JSON.parse(JSON.stringify(msg)) of a new_line or update_line message
JSONLine(msg) ==
    [type |-> msg.type,
     payload |-> [color |-> msg.payload.color,
                  points |-> [i \in 1..Len(msg.payload.points) |->
                                 JSONPoint(msg.payload.points[i])]]]

\* socketRef.current.send(JSON.stringify(msg)) if the socket is open
send(c, msg) ==
    outbox' = IF readyState[c] = "OPEN"
              THEN [outbox EXCEPT ![c] = Append(@, JSONLine(msg))]
              ELSE outbox

LinesSnapshot(c) ==
    [lines |-> lines[c], isDrawing |-> isDrawing[c], undoStack |-> undoStack[c],
     ownLine |-> ownLine[c]]

\* a callback of the component of client c
LinesEvent(c, kind, threw) ==
    /\ lastEvent' = [kind |-> kind, client |-> c, threw |-> threw]
    /\ before' = LinesSnapshot(c)

SetLines(c, newLines) ==
    /\ lines' = [lines EXCEPT ![c] = newLines]
    /\ canvas' = [canvas EXCEPT ![c] = redrawAllLines(@, newLines)]

startDrawing(c, point) ==
    LET newLine == Line(currentColor[c], <<point>>)
    IN  /\ SetLines(c, Append(lines[c], newLine))
        /\ isDrawing' = [isDrawing EXCEPT ![c] = TRUE]
        /\ send(c, [type |-> "new_line", payload |-> newLine])
        /\ ownLine' = [ownLine EXCEPT ![c] = Len(lines[c]) + 1]
        /\ lastEvent' = [kind |-> "lines.start", client |-> c, point |-> point,
                         threw |-> FALSE]
        /\ before' = LinesSnapshot(c)
        /\ UNCHANGED <<currentColor, undoStack>>

\* draw: the point goes to the last line of lines, whichever that is; on an
\* empty list lastLine is undefined and reading lastLine.points throws
draw(c, point) ==
    LET n == Len(lines[c])
        lastLine == [lines[c][n] EXCEPT !.points = Append(@, point)]
    IN  /\ lastEvent' = [kind |-> "lines.draw", client |-> c, point |-> point,
                         threw |-> isDrawing[c] /\ n = 0]
        /\ before' = LinesSnapshot(c)
        /\ IF ~isDrawing[c] \/ n = 0
           THEN UNCHANGED <<lines, canvas, outbox>>
           ELSE /\ SetLines(c, [lines[c] EXCEPT ![n] = lastLine])
                /\ send(c, [type |-> "update_line", payload |-> lastLine])
        /\ UNCHANGED <<currentColor, isDrawing, undoStack, ownLine>>

\* endDrawing of part_000
endDrawingLines(c) ==
    /\ isDrawing' = [isDrawing EXCEPT ![c] = FALSE]
    /\ ownLine' = [ownLine EXCEPT ![c] = 0]
    /\ LinesEvent(c, "lines.end", FALSE)
    /\ UNCHANGED <<currentColor, lines, canvas, undoStack, outbox>>

undo(c) ==
    LET n == Len(lines[c])
    IN  /\ IF n = 0
           THEN UNCHANGED <<lines, canvas, undoStack, ownLine>>
           ELSE /\ undoStack' = [undoStack EXCEPT ![c] = Append(@, lines[c][n])]
                /\ SetLines(c, SubSeq(lines[c], 1, n - 1))
                /\ ownLine' = [ownLine EXCEPT ![c] = IF @ = n THEN 0 ELSE @]
        /\ LinesEvent(c, "lines.undo", FALSE)
        /\ UNCHANGED <<currentColor, isDrawing, outbox>>

clearCanvas(c) ==
    /\ undoStack' = [undoStack EXCEPT ![c] = <<>>]
    /\ SetLines(c, <<>>)
    /\ ownLine' = [ownLine EXCEPT ![c] = 0]
    /\ LinesEvent(c, "lines.clear", FALSE)
    /\ UNCHANGED <<currentColor, isDrawing, outbox>>

\* onmessage of part_000: a new_line message adds its payload as a line;
\* every other message, update_line included, is ignored
onmessageLines(c, frame) ==
    /\ lastEvent' = [kind |-> "lines.message", client |-> c, frame |-> frame,
                     threw |-> ~IsJSON(frame)]
    /\ before' = LinesSnapshot(c)
    /\ IF IsJSON(frame) /\ Has(frame, "type") /\ frame.type = "new_line"
       THEN SetLines(c, Append(lines[c], frame.payload))
       ELSE UNCHANGED <<lines, canvas>>
    /\ UNCHANGED <<currentColor, isDrawing, undoStack, ownLine, outbox>>

\* the points getRelativeCoords gives for the pointer events of a run
LinePoints == {[x |-> 10, y |-> 10], [x |-> 20, y |-> 20]}

PeerLine == Line("#ff0000", <<[x |-> 20, y |-> 10], [x |-> 10, y |-> 20]>>)

LinesFrames ==
    { [type |-> "new_line", payload |-> PeerLine],
      [type |-> "update_line", payload |-> PeerLine],
      BadFrame }

InitialLines == {<<>>, <<PeerLine>>}

InitLines ==
    /\ InitIdle
    /\ InitQuiet
    /\ InitHarness
    /\ currentColor = InitialColor
    /\ readyState = [c \in Clients |-> IF c = "a" THEN "OPEN" ELSE "CONNECTING"]
    /\ relayHistory = <<>>
    /\ strokes = [c \in Clients |-> <<>>]
    /\ isDrawing = [c \in Clients |-> FALSE]
    /\ undoStack = [c \in Clients |-> <<>>]
    /\ ownLine = [c \in Clients |-> 0]
    /\ \E ls \in InitialLines :
          /\ lines = [c \in Clients |-> IF c = "a" THEN ls ELSE <<>>]
          /\ canvas = [c \in Clients |->
                           IF c = "a" THEN redrawAllLines(MountedCanvas, ls)
                           ELSE MountedCanvas]

\* the state of the component of App.js, which this variant does not have
AppIdle == UNCHANGED <<drawing, currentStroke, strokes, dragPts, dragInbound>>

LinesStep ==
    /\ nops < MaxOps
    /\ nops' = nops + 1
    /\ AppIdle
    /\ UNCHANGED <<readyState, inbox, relayHistory, harnessVars>>

InjectLines(c, frame) ==
    /\ ninject < MaxInject
    /\ ninject' = ninject + 1
    /\ onmessageLines(c, frame)
    /\ AppIdle
    /\ UNCHANGED <<readyState, inbox, relayHistory, nops, prevFrame, script,
                   cursor, order>>

NextLines ==
    \/ \E point \in LinePoints : LinesStep /\ startDrawing("a", point)
    \/ \E point \in LinePoints : LinesStep /\ draw("a", point)
    \/ LinesStep /\ endDrawingLines("a")
    \/ LinesStep /\ undo("a")
    \/ LinesStep /\ clearCanvas("a")
    \/ \E frame \in LinesFrames : InjectLines("a", frame)

SpecLines == InitLines /\ [][NextLines]_vars

----------------------------------------------------------------------------
(* SpecPaint: the window is resized, for some width and device pixel      *)
(* ratio, and then the user drags over the canvas: client a runs the      *)
(* component of App.js, client b the one of part_000.  script holds the   *)
(* CSS offsets of the pointer events of each client's drag.               *)

\* getRelativeCoords of part_000; dpr is window.devicePixelRatio
getRelativeCoords(rect, e, dpr) ==
    LET touch == Has(e, "touches") /\ Len(e.touches) > 0
        clientX == IF touch THEN e.touches[1].clientX ELSE e.clientX
        clientY == IF touch THEN e.touches[1].clientY ELSE e.clientY
    IN  [x |-> (clientX - rect.left) * dpr, y |-> (clientY - rect.top) * dpr]

\* resizeCanvas of part_000
resizeCanvasLines(c, containerWidth, dpr) ==
    LET newWidth == containerWidth
        newHeight == (containerWidth * ASPECT_RATIO.den) \div ASPECT_RATIO.num
    IN  /\ canvas' = [canvas EXCEPT
                          ![c] = redrawAllLines(Resized(newWidth, newHeight, dpr),
                                                lines[c])]
        /\ LinesEvent(c, "lines.resize", FALSE)
        /\ UNCHANGED <<currentColor, lines, isDrawing, undoStack, ownLine, outbox>>

\* canvas.getBoundingClientRect(): the element's CSS box, where the layout
\* has put it
BoundingRect(cv, origin) ==
    [left |-> origin.left, top |-> origin.top,
     width |-> cv.cssWidth, height |-> cv.cssHeight]

\* where the layout puts the canvas, and where on it the pointer is
Origins == {[left |-> 0, top |-> 0], [left |-> 8, top |-> 16]}
PaintOffsets == {[px |-> 10, py |-> 10], [px |-> 30, py |-> 20]}

PointerEvent(origin, off) ==
    MouseEvent(origin.left + off.px, origin.top + off.py)

\* the number a fraction is; the buffer of a resized canvas is a whole
\* multiple of its CSS box, so the quotients of getPos are whole
Number(r) == r.num \div r.den

\* getPos of App.js on the pointer event
PosOf(cv, origin, off) ==
    LET pos == getPos(cv, BoundingRect(cv, origin), PointerEvent(origin, off))
    IN  [x |-> Number(pos.x), y |-> Number(pos.y)]

\* getRelativeCoords of part_000 on the pointer event; the device pixel
\* ratio is the one the last resizeCanvas read
CoordsOf(cv, origin, off) ==
    getRelativeCoords(BoundingRect(cv, origin), PointerEvent(origin, off),
                      cv.scale)

InitPaint ==
    /\ InitLinesIdle
    /\ InitIdle
    /\ InitQuiet
    /\ ninject = 0
    /\ prevFrame = NoFrame
    /\ cursor = <<>>
    /\ order = <<>>
    /\ script = [c \in Clients |-> <<>>]
    /\ currentColor = InitialColor
    /\ strokes = [c \in Clients |-> <<>>]
    /\ canvas = [c \in Clients |-> MountedCanvas]
    /\ readyState = [c \in Clients |-> "OPEN"]
    /\ relayHistory = <<>>

PaintStep ==
    /\ nops < MaxOps
    /\ nops' = nops + 1
    /\ UNCHANGED <<readyState, inbox, relayHistory, ninject, prevFrame, cursor,
                   order>>

NextPaint ==
    \/ \E width \in ContainerWidths, dpr \in DevicePixelRatios :
          /\ ~drawing["a"]
          /\ PaintStep
          /\ resizeCanvas("a", width, dpr)
          /\ UNCHANGED <<script, linesVars>>
    \/ \E origin \in Origins, off \in PaintOffsets :
          /\ PaintStep
          /\ handlePointerDown("a", PosOf(canvas["a"], origin, off))
          /\ script' = [script EXCEPT !["a"] = <<off>>]
          /\ UNCHANGED linesVars
    \/ \E origin \in Origins, off \in PaintOffsets :
          /\ PaintStep
          /\ handlePointerMove("a", PosOf(canvas["a"], origin, off))
          /\ script' = [script EXCEPT
                            !["a"] = IF drawing["a"] THEN Append(@, off) ELSE @]
          /\ UNCHANGED linesVars
    \/ \E width \in ContainerWidths, dpr \in DevicePixelRatios :
          /\ ~isDrawing["b"]
          /\ PaintStep
          /\ resizeCanvasLines("b", width, dpr)
          /\ AppIdle
          /\ UNCHANGED script
    \/ \E origin \in Origins, off \in PaintOffsets :
          /\ PaintStep
          /\ startDrawing("b", CoordsOf(canvas["b"], origin, off))
          /\ script' = [script EXCEPT !["b"] = <<off>>]
          /\ AppIdle
    \/ \E origin \in Origins, off \in PaintOffsets :
          /\ PaintStep
          /\ draw("b", CoordsOf(canvas["b"], origin, off))
          /\ script' = [script EXCEPT
                            !["b"] = IF isDrawing["b"] THEN Append(@, off) ELSE @]
          /\ AppIdle

SpecPaint == InitPaint /\ [][NextPaint]_vars

----------------------------------------------------------------------------
(* Claims *)

\* all connections are open and no frame is in flight
Quiescent ==
    \A c \in Clients :
        readyState[c] = "OPEN" /\ inbox[c] = <<>> /\ outbox[c] = <<>>

\* C1 (as claimed; violated): whenever all connections are open and no
\* message is in flight, every client holds the same history, equal in
\* content and order.
C1_EventualConvergence ==
    Quiescent => \A c, d \in Clients : strokes[c] = strokes[d]

\* C2 (as claimed; violated): two clients that start with the same history
\* and have each handled all messages of all senders, each sender's in its
\* own order, hold equal histories.
C2_AnyInterleaving ==
    AllDelivered => strokes["a"] = strokes["b"]

\* C2 (amended): two clients that start with the same history and have each
\* handled all messages of all senders, each sender's in its own order, hold
\* equal histories if they handled the endStroke, undo and clear messages in
\* the same relative order; how the start and draw messages fall between
\* them does not matter.
C2_SameHistoryOrder ==
    (AllDelivered /\ HistoryOrder("a") = HistoryOrder("b"))
        => strokes["a"] = strokes["b"]

\* Two different delivery sequences with the same order of history messages
\* from both senders have been handled to the end.
C2_Witness ==
    /\ AllDelivered
    /\ order["a"] # order["b"]
    /\ HistoryOrder("a") = HistoryOrder("b")
    /\ \A s \in Senders :
          \E i \in 1..Len(HistoryOrder("a")) : HistoryOrder("a")[i].sender = s
    /\ strokes["a"] # <<>>

\* the last step was onmessage handling a JSON frame of this type
Handled(type) ==
    /\ lastEvent.kind = "message"
    /\ ~lastEvent.threw
    /\ Has(lastEvent.frame, "type")
    /\ lastEvent.frame.type = type

\* the last step was onmessage handling the same frame as the step before
Duplicate ==
    /\ lastEvent.kind = "message"
    /\ ~lastEvent.threw
    /\ Has(lastEvent.frame, "type")
    /\ prevFrame = lastEvent.frame

C4_UndoUnderflow ==
    /\ ((lastEvent.kind = "undo" \/ Handled("undo")) /\ before.strokes = <<>>)
           => (strokes[lastEvent.client] = <<>> /\ ~lastEvent.threw)
    /\ (lastEvent.kind = "clear" \/ Handled("clear"))
           => (strokes[lastEvent.client] = <<>> /\ ~lastEvent.threw)

\* A client that received the session [A, B] has cleared it and then undone:
\* both messages are sent, the history was empty before the undo and is
\* empty after it.
C4_Witness ==
    /\ lastEvent.kind = "undo"
    /\ before.strokes = <<>>
    /\ before.dragInbound
    /\ outbox[lastEvent.client] = <<[type |-> "clear"], [type |-> "undo"]>>
    /\ strokes[lastEvent.client] = <<>>

\* C5: right after onmessage has handled an init message that carries a
\* snapshot, the client's history is that snapshot, whatever it held before.
C5_InitOverwrites ==
    (Handled("init") /\ Has(lastEvent.frame, "strokes"))
        => strokes[lastEvent.client] = lastEvent.frame.strokes

\* A client that committed a stroke of its own while connecting has handled
\* the init: none of its strokes is left, the history is the snapshot.
C5_Witness ==
    /\ Handled("init")
    /\ Len(before.strokes) > 0
    /\ strokes[lastEvent.client] = InitialSession
    /\ \A i \in 1..Len(before.strokes) :
          \A j \in 1..Len(strokes[lastEvent.client]) :
              before.strokes[i] # strokes[lastEvent.client][j]

LocalKinds == {"pointerdown", "pointermove", "end", "undo", "clear", "color"}

\* C6: a frame enters a client's socket only in a step of one of its own
\* handlers that called sendMessage while the socket was open, and it is
\* then the JSON text of that one message.  While the socket is connecting
\* or closed nothing enters it: the message is not kept anywhere, and the
\* later opening of the connection sends nothing.  A frame reaches a peer
\* only from the head of another client's socket, or as the relay's init.
C6_BestEffortSend ==
    [][\A c \in Clients :
          /\ readyState[c] # "OPEN" =>
                 \/ outbox'[c] = outbox[c]
                 \/ outbox[c] # <<>> /\ outbox'[c] = Tail(outbox[c])
          /\ readyState'[c] # readyState[c] => outbox'[c] = outbox[c]
          /\ Len(outbox'[c]) > Len(outbox[c]) =>
                 /\ readyState[c] = "OPEN"
                 /\ lastEvent'.kind \in LocalKinds
                 /\ lastEvent'.client = c
                 /\ Len(lastEvent'.sent) = 1
                 /\ outbox'[c] =
                        Append(outbox[c], JSONRoundTrip(lastEvent'.sent[1]))
          /\ Len(inbox'[c]) > Len(inbox[c]) =>
                 \/ inbox'[c] = <<InitFrame(relayHistory)>>
                 \/ \E d \in Clients \ {c} :
                       /\ outbox[d] # <<>>
                       /\ inbox'[c] = Append(inbox[c], Head(outbox[d]))
      ]_vars

\* Client a drew a stroke while connecting (pointer-down, pointer-up: two
\* messages dropped), then the connection opened: the stroke is in a's
\* history but in no socket, not at the relay, and in no peer's inbox.
C6_Witness ==
    /\ readyState["a"] = "OPEN"
    /\ inbox["a"] = <<InitFrame(InitialSession)>>
    /\ nops = 2
    /\ ~drawing["a"]
    /\ Len(dragPts["a"]) = 1
    /\ strokes["a"] = <<dragPts["a"]>>
    /\ outbox = [c \in Clients |-> <<>>]
    /\ inbox["b"] = <<>>
    /\ relayHistory = InitialSession

\* C7 (as claimed; violated): a frame with an unknown type, with no type, or
\* with a known type and a required field missing leaves the history as it
\* was and throws nothing.
C7_MalformedDiscarded ==
    (lastEvent.kind = "message" /\ lastEvent.frame \in MalformedFrames)
        => /\ strokes[lastEvent.client] = before.strokes
           /\ ~lastEvent.threw

\* C8: a drag of client a, pointer-down at p0, moves at p1..pn and
\* pointer-up, with the colour picked before it, the connection open and no
\* inbound message handled meanwhile.  At the pointer-up a's history is the
\* history before it plus one stroke p0..pn, every point in that colour,
\* and the endStroke message carries that stroke; once the relay has
\* forwarded the drag's frames and b has handled them, a and b both hold the
\* history they started with plus that one stroke.
C8_StrokeRoundTrip ==
    /\ (lastEvent.kind = "end" /\ lastEvent.sent # <<>>)
           => /\ strokes["a"] = Append(before.strokes, dragPts["a"])
              /\ \A i \in 1..Len(dragPts["a"]) :
                    dragPts["a"][i].color = currentColor["a"]
              /\ lastEvent.sent[1] =
                     [type |-> "endStroke", stroke |-> dragPts["a"]]
    /\ (DragDone /\ outbox["a"] = <<>> /\ inbox["b"] = <<>>)
           => \E hist \in DragSessions :
                 /\ strokes["a"] = Append(hist, dragPts["a"])
                 /\ strokes["b"] = Append(hist, dragPts["a"])

\* A red drag of three points on top of the session [A, B] has reached b.
C8_Witness ==
    /\ DragDone
    /\ outbox["a"] = <<>>
    /\ inbox["b"] = <<>>
    /\ Handled("endStroke")
    /\ Len(dragPts["a"]) = 3
    /\ dragPts["a"][1] # dragPts["a"][2]
    /\ currentColor["a"] = "#ff0000"
    /\ strokes["b"] = Append(InitialSession, dragPts["a"])

\* C9 (as claimed; violated): a pointer-down on a client that is already
\* drawing leaves the in-flight stroke as it was and starts no second
\* stroke: nothing is sent.
C9_SecondPointerDownFails ==
    (lastEvent.kind = "pointerdown" /\ before.drawing)
        => /\ currentStroke[lastEvent.client] = before.currentStroke
           /\ lastEvent.sent = <<>>

\* C10 (as claimed; violated): a client that is not drawing has an empty
\* in-flight stroke; and the steps that build an in-flight stroke, the
\* pointer-down and pointer-move of its owner and the start and draw
\* messages at a peer, put nothing into a history.
C10_InFlightOnlyWhileDragging ==
    /\ \A c \in Clients : ~drawing[c] => currentStroke[c] = <<>>
    /\ (lastEvent.kind \in {"pointerdown", "pointermove"}
            \/ Handled("start") \/ Handled("draw"))
           => strokes[lastEvent.client] = before.strokes

\* the local operations that call sendMessage
SendingKinds == {"pointerdown", "pointermove", "end", "undo", "clear"}

\* C11: a step in which onmessage handles a frame, of any type, puts nothing
\* into any socket; and a step puts at most one frame into a client's
\* socket, and only if it is a pointer-down, pointer-move, end, undo or
\* clear of that client with its connection open, so that a client never
\* has sent more frames than it performed such operations while open.
C11_NoEcho ==
    [][/\ lastEvent'.kind = "message" =>
              \A c \in Clients : Len(outbox'[c]) <= Len(outbox[c])
       /\ \A c \in Clients :
              Len(outbox'[c]) - Len(outbox[c]) <=
                  IF /\ lastEvent'.kind \in SendingKinds
                     /\ lastEvent'.client = c
                     /\ readyState[c] = "OPEN"
                  THEN 1 ELSE 0
      ]_vars

\* A client with an open connection has handled a peer's endStroke and has
\* nothing in its socket.
C11_Witness ==
    /\ Handled("endStroke")
    /\ readyState[lastEvent.client] = "OPEN"
    /\ outbox[lastEvent.client] = <<>>
    /\ strokes[lastEvent.client] # before.strokes

Polyline(stroke) ==
    [pts |-> [i \in 1..Len(stroke) |-> XY(stroke[i])], color |-> stroke[1].color]

IsLine(stroke) == Len(stroke) >= 2

\* what one repaint of the history hist shows: a polyline for each stroke of
\* two points or more, in the order of the history
Polylines(hist) ==
    LET visible == SelectSeq(hist, IsLine)
    IN  [i \in 1..Len(visible) |-> Polyline(visible[i])]

\* C13: a resize, from any buffer size to any other, leaves the history as
\* it was, in length, order and stored coordinates, and leaves on the
\* cleared canvas one polyline for each stroke of the history, each painted
\* once, in the order of the history.
C13_ResizePreservesHistory ==
    lastEvent.kind = "resize"
        => /\ strokes[lastEvent.client] = before.strokes
           /\ canvas[lastEvent.client].painted =
                  Polylines(strokes[lastEvent.client])

\* The window of a client that holds two strokes of its session and one of
\* its own has been resized to another buffer size.
C13_Witness ==
    /\ lastEvent.kind = "resize"
    /\ Len(strokes["a"]) = 3
    /\ Len(canvas["a"].painted) >= 2
    /\ canvas["a"].width # MountWidth
    /\ strokes["a"][3] = dragPts["a"]

C15_OneCommitPerDrag ==
    /\ (lastEvent.kind = "end" /\ before.drawing)
           => /\ strokes[lastEvent.client] =
                     Append(before.strokes, before.currentStroke)
              /\ currentStroke[lastEvent.client] = <<>>
              /\ ~drawing[lastEvent.client]
    /\ (lastEvent.kind = "end" /\ ~before.drawing)
           => /\ strokes[lastEvent.client] = before.strokes
              /\ currentStroke[lastEvent.client] = before.currentStroke
              /\ lastEvent.sent = <<>>

\* After a drag of a single point was committed by a pointer-up, the
\* pointer has left the canvas: a second endDrawing, with nothing to commit.
C15_Witness ==
    /\ lastEvent.kind = "end"
    /\ ~before.drawing
    /\ Len(before.dragPts) = 1
    /\ before.strokes = <<before.dragPts>>
    /\ strokes[lastEvent.client] = before.strokes

\* C16: a pointer move on a client that is not drawing leaves its history
\* and its in-flight stroke as they were and passes nothing to sendMessage.
C16_LateMoveNoOp ==
    (lastEvent.kind = "pointermove" /\ ~before.drawing)
        => /\ strokes[lastEvent.client] = before.strokes
           /\ currentStroke[lastEvent.client] = before.currentStroke
           /\ lastEvent.sent = <<>>

\* A pointer move has arrived after the pointer-up that ended a drag, on an
\* open connection.
C16_Witness ==
    /\ lastEvent.kind = "pointermove"
    /\ ~before.drawing
    /\ before.dragPts # <<>>
    /\ before.strokes # <<>>
    /\ readyState[lastEvent.client] = "OPEN"

\* the last step ran redrawAll: an init, an endStroke with a stroke or an
\* undo was handled, or the user undid or resized
Redrawn ==
    \/ Handled("init")
    \/ Handled("endStroke") /\ Has(lastEvent.frame, "stroke")
    \/ Handled("undo")
    \/ lastEvent.kind \in {"undo", "resize"}

\* the in-flight stroke of a client whose user is drawing, as painted
InFlight(c) ==
    IF drawing[c] /\ IsLine(currentStroke[c])
    THEN <<Polyline(currentStroke[c])>>
    ELSE <<>>

\* C17 (as claimed; violated): after every redrawAll the canvas shows each
\* stroke of the history, in the order of the history, and on top of them
\* the in-flight stroke if the user is in the middle of a drag.
C17_FullRedrawContent ==
    Redrawn =>
        canvas[lastEvent.client].painted =
            Polylines(strokes[lastEvent.client]) \o InFlight(lastEvent.client)

\* What a sequence of painted polylines shows: for every segment between
\* two different points that some polyline covers, the colour of the last
\* polyline that covers it.  A polyline painted again, or painted again
\* with more points at its end, shows what the longer one painted once
\* shows.
Segments(line) ==
    { {line.pts[i], line.pts[i + 1]} : i \in 1..(Len(line.pts) - 1) }
        \ { {pt} : pt \in {line.pts[i] : i \in 1..Len(line.pts)} }

Covering(painted, seg) == {i \in 1..Len(painted) : seg \in Segments(painted[i])}

Top(painted, seg) ==
    CHOOSE i \in Covering(painted, seg) :
        \A j \in Covering(painted, seg) : j <= i

Shown(painted) ==
    [seg \in UNION {Segments(painted[i]) : i \in 1..Len(painted)} |->
        painted[Top(painted, seg)].color]

\* C18 (as claimed; violated): whenever no stroke is in flight on a client,
\* what its canvas shows after the paints made so far, the incremental ones
\* included, is what one redrawAll of its history would show.
C18_ReplayEquivalence ==
    \A c \in Clients :
        (~drawing[c] /\ currentStroke[c] = <<>>)
            => Shown(canvas[c].painted) = Shown(Polylines(strokes[c]))

\* the history operation of one message: init replaces, endStroke appends,
\* undo removes the last stroke, clear empties, anything else (start, draw,
\* a type that is not known) leaves the history as it is
HistoryOp(hist, msg) ==
    CASE msg.type = "init" -> msg.strokes
      [] msg.type = "endStroke" -> hist \o <<msg.stroke>>
      [] msg.type = "undo" -> [i \in 1..(Len(hist) - 1) |-> hist[i]]
      [] msg.type = "clear" -> <<>>
      [] OTHER -> hist

\* the fold of HistoryOp over the first n frames, left to right
RECURSIVE FoldHistory(_, _, _)
FoldHistory(hist, frames, n) ==
    IF n = 0 THEN hist
    ELSE HistoryOp(FoldHistory(hist, frames, n - 1), frames[n])

\* C19: when a client has handled the first n of the frames sent to it, its
\* history is the fold of the messages' history operations, in the order
\* they were received, over those n frames from the history it started
\* with: none is applied out of order, merged or deferred.
C19_StrictReceiptOrder ==
    Has(script, "frames") =>
        strokes["a"] =
            FoldHistory(script.start, script.frames,
                        Len(script.frames) - Len(inbox["a"]))

\* All of an endStroke, an undo and an init have been handled, in that
\* order, from a history of two strokes.
C19_Witness ==
    /\ Has(script, "frames")
    /\ inbox["a"] = <<>>
    /\ script.start = <<StrokeA, StrokeB>>
    /\ script.frames =
           << [type |-> "endStroke", stroke |-> StrokeA], [type |-> "undo"],
              InitFrame(<<StrokeB>>) >>
    /\ strokes["a"] = <<StrokeB>>

\* C20: a receiver that has handled start, draw messages and endStroke of a
\* stroke and a receiver that has handled the endStroke alone, both from the
\* same history, hold the same history: the one they started with and the
\* stroke.
C20_GranularityEquivalence ==
    (Has(script, "stroke") /\ inbox["a"] = <<>> /\ inbox["b"] = <<>>)
        => /\ strokes["a"] = strokes["b"]
           /\ strokes["a"] = Append(script.start, script.stroke)

\* A stroke of three points has reached a as start, two draws and endStroke
\* and b as endStroke alone, on top of the history [A, B].
C20_Witness ==
    /\ Has(script, "stroke")
    /\ inbox["a"] = <<>>
    /\ inbox["b"] = <<>>
    /\ script.stroke = <<P3, P1, P2>>
    /\ Len(canvas["a"].path) = 3
    /\ strokes["b"] = <<StrokeA, StrokeB, <<P3, P1, P2>>>>

\* a stroke of no point or of one
Degenerate(stroke) == Len(stroke) < 2

\* the history without its last stroke
AllButLast(hist) == [i \in 1..(Len(hist) - 1) |-> hist[i]]

\* C21: a pointer-up on a client that is drawing with an in-flight stroke of
\* no point or one appends that stroke to the history as an entry of its own
\* and passes it to the socket in an endStroke; an endStroke that carries
\* such a stroke is appended by the receiver, and paints nothing more than
\* the history before it; an undo, local or inbound, on a history that ends
\* with such a stroke removes that entry and no other; and no polyline on a
\* canvas has fewer than two points, a repaint leaving one polyline for each
\* stroke of two points or more and none for the others.
C21_DegenerateStrokes ==
    /\ (lastEvent.kind = "end" /\ before.drawing
            /\ Degenerate(before.currentStroke))
           => /\ strokes[lastEvent.client] =
                     before.strokes \o <<before.currentStroke>>
              /\ lastEvent.sent =
                     <<[type |-> "endStroke", stroke |-> before.currentStroke]>>
              /\ readyState[lastEvent.client] = "OPEN" =>
                     /\ outbox[lastEvent.client] # <<>>
                     /\ outbox[lastEvent.client][Len(outbox[lastEvent.client])] =
                            [type |-> "endStroke",
                             stroke |-> before.currentStroke]
    /\ (Handled("endStroke") /\ Has(lastEvent.frame, "stroke")
            /\ Degenerate(lastEvent.frame.stroke))
           => /\ strokes[lastEvent.client] =
                     before.strokes \o <<lastEvent.frame.stroke>>
              /\ canvas[lastEvent.client].painted = Polylines(before.strokes)
    /\ ((lastEvent.kind = "undo" \/ Handled("undo"))
            /\ before.strokes # <<>>
            /\ Degenerate(before.strokes[Len(before.strokes)]))
           => strokes[lastEvent.client] = AllButLast(before.strokes)
    /\ \A c \in Clients :
           \A i \in 1..Len(canvas[c].painted) :
               Len(canvas[c].painted[i].pts) >= 2
    /\ Redrawn =>
           Len(canvas[lastEvent.client].painted) =
               Cardinality({i \in 1..Len(strokes[lastEvent.client]) :
                               ~Degenerate(strokes[lastEvent.client][i])})

\* A pointer-up has committed and sent a stroke of no point (a peer's
\* endStroke had emptied the in-flight stroke after the pointer-down), on
\* top of a history that already ends with a stroke of one point, and the
\* user has undone it.
C21_Witness ==
    /\ lastEvent.kind = "undo"
    /\ Len(before.strokes) >= 2
    /\ before.strokes[Len(before.strokes)] = <<>>
    /\ before.strokes[Len(before.strokes) - 1] = StrokeB
    /\ strokes["a"] = AllButLast(before.strokes)
    /\ \E i \in 1..Len(outbox["a"]) :
           outbox["a"][i] = [type |-> "endStroke", stroke |-> <<>>]

\* what a local operation of client c does to c's history, in-flight stroke
\* and drawing flag on an open connection, from the state before it and the
\* message it builds
AsWhileOpen(c, kind, sent) ==
    CASE kind = "pointerdown" ->
             /\ Len(sent) = 1
             /\ strokes'[c] = strokes[c]
             /\ currentStroke'[c] = <<MsgPoint(sent[1])>>
             /\ drawing'[c]
      [] kind = "pointermove" ->
             /\ Len(sent) = (IF drawing[c] THEN 1 ELSE 0)
             /\ strokes'[c] = strokes[c]
             /\ currentStroke'[c] =
                    (IF drawing[c]
                     THEN currentStroke[c] \o <<MsgPoint(sent[1])>>
                     ELSE currentStroke[c])
             /\ drawing'[c] = drawing[c]
      [] kind = "end" ->
             /\ Len(sent) = (IF drawing[c] THEN 1 ELSE 0)
             /\ strokes'[c] =
                    (IF drawing[c] THEN strokes[c] \o <<currentStroke[c]>>
                     ELSE strokes[c])
             /\ currentStroke'[c] =
                    (IF drawing[c] THEN <<>> ELSE currentStroke[c])
             /\ ~drawing'[c]
      [] kind = "undo" ->
             /\ Len(sent) = 1
             /\ strokes'[c] = AllButLast(strokes[c])
             /\ currentStroke'[c] = currentStroke[c]
             /\ drawing'[c] = drawing[c]
      [] kind = "clear" ->
             /\ Len(sent) = 1
             /\ strokes'[c] = <<>>
             /\ currentStroke'[c] = currentStroke[c]
             /\ drawing'[c] = drawing[c]

\* C22: a step that changes a client's connection state (the connection
\* opens, fails before opening, or closes) leaves every client's history,
\* in-flight stroke, drawing flag, colour and canvas, and every socket's
\* pending frames, as they were; and a pointer-down, pointer-move, end, undo
\* or clear of a client whose connection is connecting or closed throws
\* nothing, puts nothing into the socket, and does to the history, the
\* in-flight stroke and the drawing flag what it does on an open connection.
C22_TransportFailureLocalSafe ==
    [][/\ readyState' # readyState => UNCHANGED <<clientVars, outbox>>
       /\ lastEvent'.kind \in SendingKinds =>
              /\ ~lastEvent'.threw
              /\ AsWhileOpen(lastEvent'.client, lastEvent'.kind, lastEvent'.sent)
              /\ readyState[lastEvent'.client] # "OPEN" => outbox' = outbox
      ]_vars

\* The connection of a client closed in the middle of a drag, after the
\* start message had gone into the socket; the pointer-up has committed the
\* stroke to the local history all the same, and the user has undone it.
C22_Witness ==
    /\ lastEvent.kind = "undo"
    /\ readyState[lastEvent.client] = "CLOSED"
    /\ Len(outbox[lastEvent.client]) = 1
    /\ outbox[lastEvent.client][1].type = "start"
    /\ before.strokes = <<before.dragPts>>
    /\ strokes[lastEvent.client] = <<>>

\* C23 (as claimed; violated): the stroke a pointer-up appends to the
\* client's history and sends in endStroke is made of the points of the
\* client's own pointer-down and pointer-move events of this drag, in
\* order, whatever start, draw and endStroke messages of peers were handled
\* between the pointer-down and the pointer-up.
C23_LocalStrokeIntegrity ==
    (lastEvent.kind = "end" /\ before.drawing)
        => /\ strokes[lastEvent.client] =
                  before.strokes \o <<dragPts[lastEvent.client]>>
           /\ lastEvent.sent =
                  <<[type |-> "endStroke", stroke |-> dragPts[lastEvent.client]]>>

\* C24 (as claimed; violated): a pointer move of part_000 while isDrawing
\* throws nothing, finds lines not empty, and appends its point to the line
\* that this drag's startDrawing created and to no other, whatever new_line
\* messages have arrived since.
C24_OwnLineAppend ==
    (lastEvent.kind = "lines.draw" /\ before.isDrawing)
        => /\ ~lastEvent.threw
           /\ before.lines # <<>>
           /\ before.ownLine \in 1..Len(before.lines)
           /\ lines[lastEvent.client] =
                  [before.lines EXCEPT
                      ![before.ownLine].points = Append(@, lastEvent.point)]

\* the point pt, passed to moveTo or lineTo, is painted at the place of the
\* buffer that the screen shows at CSS offset off: the transform takes pt to
\* (scale * x, scale * y) in the buffer, and the screen shows the buffer
\* reduced from its width to the CSS width
UnderPointer(cv, pt, off) ==
    /\ cv.scale * pt.x * cv.cssWidth = off.px * cv.width
    /\ cv.scale * pt.y * cv.cssHeight = off.py * cv.height

\* the polyline painted last shows the pointer's path
PathUnderPointer(cv, offs) ==
    /\ cv.painted # <<>>
    /\ LET line == cv.painted[Len(cv.painted)]
       IN  /\ Len(line.pts) = Len(offs)
           /\ \A i \in 1..Len(offs) : UnderPointer(cv, line.pts[i], offs[i])

\* C25 (as claimed; violated): after a resizeCanvas for any container width
\* and any device pixel ratio, the segment a pointer move paints, in App.js
\* and in part_000, appears on screen at the CSS offsets of the pointer
\* events of the drag: the buffer position is (px * dpr, py * dpr).
C25_PaintUnderPointer ==
    /\ (lastEvent.kind = "pointermove" /\ before.drawing)
           => PathUnderPointer(canvas["a"], script["a"])
    /\ (lastEvent.kind = "lines.draw" /\ before.isDrawing)
           => PathUnderPointer(canvas["b"], script["b"])

====
